---- MODULE Spec2Model ----
(***************************************************************************)
(* Newton-Raphson iteration for the diode-resistor circuit                 *)
(* (Task4_Newton_Raphson_Iteration.py).                                    *)
(*                                                                         *)
(* The script is a straight-line program: parameters, the residual f and   *)
(* its derivative df, the Newton loop (lines 64-77), the final current     *)
(* (line 80) and the 'Converged Point' marker of the diagram (line 110).   *)
(* The literals of lines 42-46 and 56-58 are the inputs of the solve; they *)
(* are drawn from small sets in Init.                                      *)
(*                                                                         *)
(* Python floats are modelled by a small number format: the finite values  *)
(* are the integers of magnitude <= MaxMag, a result beyond that becomes   *)
(* +inf or -inf, a quotient is rounded to the nearest value (ties to       *)
(* even), and NaN, the infinities, ZeroDivisionError (any float division   *)
(* by zero) and OverflowError (math.exp out of range) behave as in         *)
(* CPython.  Signed zeros are not distinguished: no operation of the       *)
(* script tells them apart.                                                *)
(***************************************************************************)
EXTENDS Integers, Sequences, FiniteSets, TLC

VARIABLES Vs, R, Is, n, Vt, x0, tolerance, max_iter,
          Vd, results, Vd_values, i, I, marker, pc, fault

params == <<Vs, R, Is, n, Vt, x0, tolerance, max_iter>>
vars == <<Vs, R, Is, n, Vt, x0, tolerance, max_iter,
          Vd, results, Vd_values, i, I, marker, pc, fault>>

\* ---- bounds ----
MaxIter == 4
MaxMag == 100
MaxGuess == 4

\* ---- float values ----
Fin(v) == [kind |-> "fin", val |-> v]
NaN == [kind |-> "nan", val |-> 0]
PInf == [kind |-> "inf", val |-> 1]
NInf == [kind |-> "inf", val |-> -1]
ZeroDivisionError == [kind |-> "ZeroDivisionError", val |-> 0]
OverflowError == [kind |-> "OverflowError", val |-> 0]
Unset == [kind |-> "unset", val |-> 0]

IsErr(a) == a.kind \in {"ZeroDivisionError", "OverflowError"}
IsFinite(a) == a.kind = "fin"
IsNonFinite(a) == a.kind \in {"nan", "inf"}

Sign(v) == IF v > 0 THEN 1 ELSE IF v < 0 THEN -1 ELSE 0
AbsInt(v) == IF v < 0 THEN -v ELSE v

\* a result out of range becomes an infinity, silently
Round(v) == IF v > MaxMag THEN PInf ELSE IF v < -MaxMag THEN NInf ELSE Fin(v)

\* nearest integer to a / b, ties to even (b # 0)
RoundDiv(a, b) ==
  LET q == AbsInt(a) \div AbsInt(b)
      r == AbsInt(a) % AbsInt(b)
      m == IF 2 * r > AbsInt(b) THEN q + 1
           ELSE IF 2 * r < AbsInt(b) THEN q
           ELSE IF q % 2 = 0 THEN q ELSE q + 1
  IN Sign(a) * Sign(b) * m

Neg(a) ==
  IF IsErr(a) THEN a
  ELSE IF a.kind = "nan" THEN NaN
  ELSE [kind |-> a.kind, val |-> -a.val]

Abs(a) ==
  IF IsErr(a) THEN a
  ELSE IF a.kind = "nan" THEN NaN
  ELSE [kind |-> a.kind, val |-> AbsInt(a.val)]

Add(a, b) ==
  IF IsErr(a) THEN a
  ELSE IF IsErr(b) THEN b
  ELSE IF a.kind = "nan" \/ b.kind = "nan" THEN NaN
  ELSE IF a.kind = "inf" /\ b.kind = "inf" THEN (IF a.val = b.val THEN a ELSE NaN)
  ELSE IF a.kind = "inf" THEN a
  ELSE IF b.kind = "inf" THEN b
  ELSE Round(a.val + b.val)

Sub(a, b) == Add(a, Neg(b))

Mul(a, b) ==
  IF IsErr(a) THEN a
  ELSE IF IsErr(b) THEN b
  ELSE IF a.kind = "nan" \/ b.kind = "nan" THEN NaN
  ELSE IF a.kind = "inf" \/ b.kind = "inf"
       THEN (IF a.val = 0 \/ b.val = 0 THEN NaN
             ELSE [kind |-> "inf", val |-> Sign(a.val) * Sign(b.val)])
  ELSE Round(a.val * b.val)

\* float division: a zero divisor raises whatever the dividend is
Div_noRaise(a, b) ==
  IF IsErr(a) THEN a
  ELSE IF IsErr(b) THEN b
  ELSE IF a.kind = "nan" \/ b.kind = "nan" THEN NaN
  ELSE IF b.kind = "fin" /\ b.val = 0
       THEN (IF a.val = 0 THEN NaN ELSE [kind |-> "inf", val |-> Sign(a.val)])
  ELSE IF a.kind = "inf" /\ b.kind = "inf" THEN NaN
  ELSE IF a.kind = "inf" THEN [kind |-> "inf", val |-> Sign(a.val) * Sign(b.val)]
  ELSE IF b.kind = "inf" THEN Fin(0)
  ELSE Fin(RoundDiv(a.val, b.val))

Div(a, b) ==
  IF IsErr(a) THEN a
  ELSE IF IsErr(b) THEN b
  ELSE IF b.kind = "fin" /\ b.val = 0 THEN ZeroDivisionError
  ELSE IF a.kind = "nan" \/ b.kind = "nan" THEN NaN
  ELSE IF a.kind = "inf" /\ b.kind = "inf" THEN NaN
  ELSE IF a.kind = "inf" THEN [kind |-> "inf", val |-> Sign(a.val) * Sign(b.val)]
  ELSE IF b.kind = "inf" THEN Fin(0)
  ELSE Fin(RoundDiv(a.val, b.val))

\* position on the extended number line of a value that is not NaN
Key(a) == IF a.kind = "inf" THEN a.val * (MaxMag + 1) ELSE a.val

\* a < b on floats: false as soon as one side is NaN
Lt(a, b) == a.kind # "nan" /\ b.kind # "nan" /\ Key(a) < Key(b)

\* round(e^k) for k = 0 .. 7
ExpTable == <<1, 3, 7, 20, 55, 148, 403, 1097>>

\* math.exp: OverflowError when the result is out of range, 0.0 on underflow
Exp(a) ==
  IF IsErr(a) THEN a
  ELSE IF a.kind = "nan" THEN NaN
  ELSE IF a.kind = "inf" THEN (IF a.val > 0 THEN PInf ELSE Fin(0))
  ELSE IF a.val < 0 THEN Fin(0)
  ELSE IF a.val + 1 > Len(ExpTable) THEN OverflowError
  ELSE IF ExpTable[a.val + 1] > MaxMag THEN OverflowError
  ELSE Fin(ExpTable[a.val + 1])

\* ---- residual and derivative (lines 49-53) ----
\* Vs - R * Is * (math.exp(Vd / (n * Vt)) - 1) - Vd
f(v) ==
  Sub(Sub(Vs, Mul(Mul(R, Is), Sub(Exp(Div(v, Mul(n, Vt))), Fin(1)))), v)

\* -R * Is * (math.exp(Vd / (n * Vt)) / (n * Vt)) - 1
df(v) ==
  Sub(Mul(Mul(Neg(R), Is), Div(Exp(Div(v, Mul(n, Vt))), Mul(n, Vt))), Fin(1))

\* Is * (math.exp(Vd / (n * Vt)) - 1)   (line 80)
Current(v) == Mul(Is, Sub(Exp(Div(v, Mul(n, Vt))), Fin(1)))

Last(s) == s[Len(s)]

\* ---- input sets ----
VsSet == {Fin(0), Fin(5)}
RSet == {Fin(-1), Fin(1), Fin(2)}
IsSet == {Fin(0), Fin(1)}
nSet == {Fin(0), Fin(1)}
VtSet == {Fin(1), Fin(2)}
GuessSet == {Fin(v) : v \in (-MaxGuess)..MaxGuess} \cup {PInf, NInf, NaN}
ToleranceSet == {Fin(0), Fin(1), Fin(3), PInf}

NoMarker == [label |-> "none", at |-> Unset]
NoFault == [kind |-> "none", line |-> 0]

\* state after line 62
Init ==
  /\ Vs \in VsSet
  /\ R \in RSet
  /\ Is \in IsSet
  /\ n \in nSet
  /\ Vt \in VtSet
  /\ x0 \in GuessSet
  /\ tolerance \in ToleranceSet
  /\ max_iter \in 0..MaxIter
  /\ Vd = x0
  /\ results = <<>>
  /\ Vd_values = <<x0>>
  /\ i = 0
  /\ I = Unset
  /\ marker = NoMarker
  /\ pc = "loop"
  /\ fault = NoFault

\* an uncaught exception ends the script at the line that raised it
Raise(e, line) ==
  /\ pc' = "fault"
  /\ fault' = [kind |-> e.kind, line |-> line]
  /\ UNCHANGED <<Vd, results, Vd_values, I, marker>>

\* range(max_iter) has a further value after k values were taken
RangeHasNext_inclusive(k, m) == k <= m

RangeHasNext(k, m) == k < m

\* the record of lines 68-72; idx is the value of the loop variable
Record_zeroBased(idx, Vd_new, Vd_old) ==
  [Iteration |-> idx, Vd |-> Vd_new, Change |-> Abs(Sub(Vd_new, Vd_old))]

Record(idx, Vd_new, Vd_old) ==
  [Iteration |-> idx + 1, Vd |-> Vd_new, Change |-> Abs(Sub(Vd_new, Vd_old))]

\* the test of line 74 written as "not (delta >= tolerance)"
Converged_notGe(Vd_new, Vd_old, tol) ==
  LET delta == Abs(Sub(Vd_new, Vd_old))
  IN ~ (Lt(tol, delta) \/ delta = tol)

\* the test of line 74
Converged(Vd_new, Vd_old, tol) == Lt(Abs(Sub(Vd_new, Vd_old)), tol)

\* lines 68-77 without the break
Step_noBreak(Vd_new) ==
  /\ results' = Append(results, Record(i, Vd_new, Vd))
  /\ Vd_values' = Append(Vd_values, Vd_new)
  /\ Vd' = Vd_new
  /\ pc' = "loop"
  /\ UNCHANGED <<I, marker, fault>>

\* lines 68-77 without the assignment of line 75
Step_staleOnBreak(Vd_new) ==
  /\ results' = Append(results, Record(i, Vd_new, Vd))
  /\ Vd_values' = Append(Vd_values, Vd_new)
  /\ IF Converged(Vd_new, Vd, tolerance)
       THEN Vd' = Vd /\ pc' = "final"
       ELSE Vd' = Vd_new /\ pc' = "loop"
  /\ UNCHANGED <<I, marker, fault>>

\* lines 68-77 with line 73 moved after the break
Step_rawAfterBreak(Vd_new) ==
  /\ results' = Append(results, Record(i, Vd_new, Vd))
  /\ Vd' = Vd_new
  /\ IF Converged(Vd_new, Vd, tolerance)
       THEN Vd_values' = Vd_values /\ pc' = "final"
       ELSE Vd_values' = Append(Vd_values, Vd_new) /\ pc' = "loop"
  /\ UNCHANGED <<I, marker, fault>>

\* lines 68-77: record, raw value, convergence test, update of Vd
Step(Vd_new) ==
  /\ results' = Append(results, Record(i, Vd_new, Vd))
  /\ Vd_values' = Append(Vd_values, Vd_new)
  /\ Vd' = Vd_new
  /\ pc' = IF Converged(Vd_new, Vd, tolerance) THEN "final" ELSE "loop"
  /\ UNCHANGED <<I, marker, fault>>

\* one pass of the loop body (lines 64-77); i is the next value of the range
Pass ==
  /\ pc = "loop"
  /\ RangeHasNext(i, max_iter)
  /\ i' = i + 1
  /\ LET f_val == f(Vd)
         df_val == df(Vd)
         Vd_new == Sub(Vd, Div(f_val, df_val))
     IN IF IsErr(f_val) THEN Raise(f_val, 65)
        ELSE IF IsErr(df_val) THEN Raise(df_val, 66)
        ELSE IF IsErr(Vd_new) THEN Raise(Vd_new, 67)
        ELSE Step(Vd_new)
  /\ UNCHANGED params

\* the range is exhausted: the for statement ends (line 64)
LoopExit ==
  /\ pc = "loop"
  /\ ~ RangeHasNext(i, max_iter)
  /\ pc' = "final"
  /\ UNCHANGED <<Vd, results, Vd_values, i, I, marker, fault>>
  /\ UNCHANGED params

\* the final diode current (line 80)
Finish ==
  /\ pc = "final"
  /\ LET cur == Current(Vd)
     IN IF IsErr(cur) THEN Raise(cur, 80)
        ELSE /\ I' = cur
             /\ pc' = "report"
             /\ UNCHANGED <<Vd, results, Vd_values, marker, fault>>
  /\ UNCHANGED i
  /\ UNCHANGED params

\* the marker of the diagram (line 110)
Plot ==
  /\ pc = "report"
  /\ marker' = [label |-> "Converged Point", at |-> Last(Vd_values)]
  /\ pc' = "done"
  /\ UNCHANGED <<Vd, results, Vd_values, i, I, fault>>
  /\ UNCHANGED params

Next == Pass \/ LoopExit \/ Finish \/ Plot

Spec == Init /\ [][Next]_vars

\* ---- properties ----
\* loop passes completed so far: a pass that raised has taken its value of
\* the range but did not complete
PassesCompleted == IF pc = "fault" /\ fault.line # 80 THEN i - 1 ELSE i

LoopTerminated == pc \in {"final", "report", "done"} \/ (pc = "fault" /\ fault.line = 80)

BrokeOut == results # <<>> /\ Lt(Last(results).Change, tolerance)

\* C1: the number of records equals the number of completed loop passes and
\* never exceeds max_iter; a completed pass appends exactly one record and
\* nothing else changes the trace.
C1_RecordPerPass ==
  /\ [](Len(results) = PassesCompleted /\ Len(results) <= max_iter)
  /\ [][IF i' = i + 1 /\ pc' # "fault"
          THEN Len(results') = Len(results) + 1
               /\ SubSeq(results', 1, Len(results)) = results
          ELSE results' = results]_vars

C1_Witness == pc = "final" /\ max_iter >= 2 /\ Len(results) = max_iter

\* C2: the raw-value trace holds exactly one entry more than the iteration
\* trace at loop start, after every pass and at loop exit.
C2_LengthInvariant == Len(results) = Len(Vd_values) - 1

C2_Witness == pc = "final" /\ Len(results) >= 2 /\ BrokeOut

\* C3: once the loop has terminated, Vd is the value of the last record and
\* the last raw value, or the initial guess when the trace is empty.
C3_FinalValue ==
  LoopTerminated =>
    IF results = <<>> THEN Vd = x0
    ELSE Vd = Last(results).Vd /\ Vd = Last(Vd_values)

C3_Witness ==
  /\ pc = "final" /\ Len(results) >= 2 /\ BrokeOut
  /\ Last(results).Change # Fin(0)

\* C4: at termination the solve is reported as converged if and only if the
\* last completed pass had delta < tolerance.
C4_ConvergedFlag ==
  pc = "done" => ((marker.label = "Converged Point") <=> BrokeOut)

\* C5: with max_iter = 0 there is no record, the raw trace is the seed, the
\* final estimate is x0 and the solve is reported as not converged.
C5_ZeroBudget ==
  (max_iter = 0 /\ pc = "done") =>
    /\ results = <<>>
    /\ Vd_values = <<x0>>
    /\ Vd = x0
    /\ marker.label # "Converged Point"

\* C6: when the first step's delta |x1 - x0| is below tolerance the solve
\* stops after exactly one iteration: one record, of index 1, and the final
\* estimate is x1.
C6_OneIteration ==
  (Len(Vd_values) >= 2 /\ Lt(Abs(Sub(Vd_values[2], x0)), tolerance)) =>
    /\ pc # "loop"
    /\ Len(results) = 1
    /\ results[1].Iteration = 1
    /\ Vd = Vd_values[2]

C6_Witness ==
  /\ pc = "done" /\ max_iter >= 2 /\ Len(results) = 1
  /\ Vd_values[2] # x0
  /\ Lt(Abs(Sub(Vd_values[2], x0)), tolerance)

\* C7: a pass that finds the derivative exactly zero ends in an uncaught
\* ZeroDivisionError: nothing is appended, Vd keeps its value, no later step
\* runs and no final current or marker is produced.
C7_ZeroDerivative ==
  /\ [][(i' = i + 1 /\ df(Vd) = Fin(0)) =>
          /\ pc' = "fault"
          /\ fault' = [kind |-> "ZeroDivisionError", line |-> 67]
          /\ results' = results /\ Vd_values' = Vd_values /\ Vd' = Vd]_vars
  /\ [][pc # "fault"]_vars
  /\ [](pc = "fault" /\ fault.line # 80 => I = Unset /\ marker = NoMarker)

C7_Witness ==
  /\ pc = "fault" /\ fault = [kind |-> "ZeroDivisionError", line |-> 67]
  /\ df(Vd) = Fin(0) /\ Len(results) >= 1

\* C8: once a record holds a non-finite iterate, every later delta is
\* non-finite and fails the test of line 74, no fault is raised, and the loop
\* ends only by exhausting max_iter, with one record per pass and no record
\* below tolerance.
C8_NonFinite ==
  \A k \in 1..Len(results) :
    IsNonFinite(results[k].Vd) =>
      /\ \A j \in (k + 1)..Len(results) :
           /\ IsNonFinite(results[j].Change)
           /\ ~ Lt(results[j].Change, tolerance)
      /\ pc # "fault"
      /\ pc # "loop" =>
           /\ Len(results) = max_iter
           /\ \A j \in 1..Len(results) : ~ Lt(results[j].Change, tolerance)

C8_Witness ==
  /\ pc = "done" /\ IsFinite(x0) /\ Len(results) = max_iter
  /\ \E k \in 1..(Len(results) - 2) : IsNonFinite(results[k].Vd)

\* C10: records carry the indices 1, 2, ..., every record but the last has a
\* change that is not below tolerance, and nothing is appended after a record
\* whose change is below tolerance.
C10_StopAtFirstConverged ==
  /\ [](\A j \in 1..Len(results) :
          /\ results[j].Iteration = j
          /\ j < Len(results) => ~ Lt(results[j].Change, tolerance))
  /\ [][BrokeOut => results' = results]_vars

C10_Witness ==
  /\ pc = "done" /\ Len(results) >= 3 /\ Len(results) < max_iter
  /\ BrokeOut

====
